---- MODULE Spec2Model ----
(***************************************************************************)
(* Model of TextChunker (src/Vector-database/text_chunker.py).             *)
(*                                                                         *)
(* A string is a sequence of one-character strings.  One call of           *)
(* chunk_document is a process whose position is pc:                       *)
(*   start -> cascade -> strip -> overlap -> stamp -> done   (recursive)   *)
(*   start -> overlap -> stamp -> done            (sentence, paragraph)    *)
(*   start -> raised                              (unknown strategy)       *)
(***************************************************************************)
EXTENDS Integers, Sequences, FiniteSets, TLC

\* ---------------------------------------------------------------- bounds
\* longest document content
MaxLen == 4
\* largest chunk_size a configuration sets (chunk_overlap < chunk_size)
MaxChunk == 4
\* overlap specification: longest pre-overlap chunk, longest chunk list
MaxPreLen == 4
MaxPreCount == 3

\* ---------------------------------------------------------------- characters
Whitespace == {" ", "\n"}
SentenceEnd == {".", "!", "?"}
Alphabet == {"a", " ", "\n", ".", "!", "?", ";", ","}
\* the characters of the overlap specification
OverlapAlphabet == {"a", " ", "\n"}

Strings(chars, n) == UNION {[1..k -> chars] : k \in 0..n}

\* text[i:j] of Python with 1-based inclusive bounds
Slice(text, i, j) == IF i > j THEN <<>> ELSE SubSeq(text, i, j)

\* separators of _recursive_chunk, in order of preference
separators ==
  << <<"\n", "\n">>, <<"\n">>, <<".", " ">>, <<"!", " ">>, <<"?", " ">>,
     <<";", " ">>, <<",", " ">>, <<" ">>, <<>> >>

\* ---------------------------------------------------------------- str helpers
\* sep occurs in text at position i
OccursAt(text, sep, i) ==
  /\ i + Len(sep) - 1 <= Len(text)
  /\ \A k \in 1..Len(sep) : text[i + k - 1] = sep[k]

\* str.find: first position >= i where sep occurs, 0 when there is none
RECURSIVE Find(_, _, _)
Find(text, sep, i) ==
  IF i + Len(sep) - 1 > Len(text) THEN 0
  ELSE IF OccursAt(text, sep, i) THEN i
  ELSE Find(text, sep, i + 1)

\* str.split(sep) for a non-empty sep
RECURSIVE StrSplit(_, _)
StrSplit(text, sep) ==
  LET i == Find(text, sep, 1) IN
  IF i = 0 THEN <<text>>
  ELSE <<Slice(text, 1, i - 1)>> \o StrSplit(Slice(text, i + Len(sep), Len(text)), sep)

RECURSIVE LStrip(_)
LStrip(text) ==
  IF text # <<>> /\ Head(text) \in Whitespace THEN LStrip(Tail(text)) ELSE text

RECURSIVE RStrip(_)
RStrip(text) ==
  IF text # <<>> /\ text[Len(text)] \in Whitespace
  THEN RStrip(Slice(text, 1, Len(text) - 1)) ELSE text

\* str.strip()
Strip(text) == RStrip(LStrip(text))

\* first position >= i of text holding a character of (in = TRUE) or outside
\* (in = FALSE) the whitespace set, Len(text) + 1 when there is none
RECURSIVE Scan(_, _, _)
Scan(text, i, in) ==
  IF i > Len(text) THEN i
  ELSE IF (text[i] \in Whitespace) = in THEN i
  ELSE Scan(text, i + 1, in)

\* str.split() without argument: the maximal runs of non-whitespace
RECURSIVE Words(_)
Words(text) ==
  LET s == Scan(text, 1, FALSE) IN
  IF s > Len(text) THEN <<>>
  ELSE LET e == Scan(text, s, TRUE) IN
       <<Slice(text, s, e - 1)>> \o Words(Slice(text, e, Len(text)))

\* sep.join(parts)
RECURSIVE Join(_, _)
Join(parts, sep) ==
  IF parts = <<>> THEN <<>>
  ELSE IF Len(parts) = 1 THEN parts[1]
  ELSE parts[1] \o sep \o Join(Tail(parts), sep)

\* re.split(r'(?<=[.!?])\s+', text): cut at every whitespace run that
\* directly follows one of . ! ?  (s: start of the current part, i: scan)
RECURSIVE ReSplitFrom(_, _, _)
ReSplitFrom(text, s, i) ==
  IF i > Len(text) THEN <<Slice(text, s, Len(text))>>
  ELSE IF i > 1 /\ text[i] \in Whitespace /\ text[i - 1] \in SentenceEnd
  THEN LET j == Scan(text, i, FALSE) IN
       <<Slice(text, s, i - 1)>> \o ReSplitFrom(text, j, j)
  ELSE ReSplitFrom(text, s, i + 1)

ReSplit(text) == ReSplitFrom(text, 1, 1)

\* ---------------------------------------------------------------- TextChunker
\* CharSplit cutting one character too wide (a slip in the slice bound)
RECURSIVE CharSplitWide(_, _)
CharSplitWide(text, size) ==
  IF text = <<>> THEN <<>>
  ELSE IF Len(text) <= size + 1 THEN <<text>>
  ELSE <<Slice(text, 1, size + 1)>>
       \o CharSplitWide(Slice(text, size + 2, Len(text)), size)

\* the character-level branch of _split_by_separator:
\* [text[i:i + size] for i in range(0, len(text), size)]
RECURSIVE CharSplit(_, _)
CharSplit(text, size) ==
  IF text = <<>> THEN <<>>
  ELSE IF Len(text) <= size THEN <<text>>
  ELSE <<Slice(text, 1, size)>> \o CharSplit(Slice(text, size + 1, Len(text)), size)

\* one iteration of the loop over parts in _split_by_separator;
\* acc is [chunks, current_chunk]
SplitStep(acc, part, separator, size) ==
  LET test_chunk == IF acc.current_chunk # <<>>
                    THEN acc.current_chunk \o separator \o part
                    ELSE part
  IN IF Len(test_chunk) <= size
     THEN [chunks |-> acc.chunks, current_chunk |-> test_chunk]
     ELSE LET saved == IF acc.current_chunk # <<>>
                       THEN Append(acc.chunks, acc.current_chunk)
                       ELSE acc.chunks
          IN IF Len(part) <= size
             THEN [chunks |-> saved, current_chunk |-> part]
             ELSE [chunks |-> Append(saved, part), current_chunk |-> <<>>]

RECURSIVE SplitLoop(_, _, _, _)
SplitLoop(acc, parts, separator, size) ==
  IF parts = <<>> THEN acc
  ELSE SplitLoop(SplitStep(acc, Head(parts), separator, size),
                 Tail(parts), separator, size)

\* _split_by_separator(text, separator)
SplitBySeparator(text, separator, size) ==
  IF separator = <<>> THEN CharSplit(text, size)
  ELSE LET acc == SplitLoop([chunks |-> <<>>, current_chunk |-> <<>>],
                            StrSplit(text, separator), separator, size)
       IN IF acc.current_chunk # <<>>
          THEN Append(acc.chunks, acc.current_chunk)
          ELSE acc.chunks

\* the body of "for chunk in chunks" of _recursive_chunk for one separator
RECURSIVE RoundChunks(_, _, _)
RoundChunks(chunks, separator, size) ==
  IF chunks = <<>> THEN <<>>
  ELSE (IF Len(Head(chunks)) <= size
        THEN <<Head(chunks)>>
        ELSE SplitBySeparator(Head(chunks), separator, size))
       \o RoundChunks(Tail(chunks), separator, size)

\* AllFit with any() in place of all()
AnyFit(chunks, size) == \E i \in 1..Len(chunks) : Len(chunks[i]) <= size

\* all(len(chunk) <= self.chunk_size for chunk in chunks)
AllFit(chunks, size) == \A i \in 1..Len(chunks) : Len(chunks[i]) <= size

\* StripNonEmpty that filters but keeps the chunk unstripped
RECURSIVE StripNonEmptyKeep(_)
StripNonEmptyKeep(chunks) ==
  IF chunks = <<>> THEN <<>>
  ELSE (IF Strip(Head(chunks)) # <<>> THEN <<Head(chunks)>> ELSE <<>>)
       \o StripNonEmptyKeep(Tail(chunks))

\* [chunk.strip() for chunk in chunks if chunk.strip()]
RECURSIVE StripNonEmpty(_)
StripNonEmpty(chunks) ==
  IF chunks = <<>> THEN <<>>
  ELSE (IF Strip(Head(chunks)) # <<>> THEN <<Strip(Head(chunks))>> ELSE <<>>)
       \o StripNonEmpty(Tail(chunks))

\* one iteration of the loop of _sentence_chunk / _paragraph_chunk, which
\* differ in the joining string only; acc is [chunks, current_chunk]
PackStep(acc, unit, joiner, size) ==
  IF Len(acc.current_chunk \o joiner \o unit) <= size
  THEN [chunks |-> acc.chunks,
        current_chunk |-> IF acc.current_chunk # <<>>
                          THEN acc.current_chunk \o joiner \o unit
                          ELSE unit]
  ELSE [chunks |-> IF acc.current_chunk # <<>>
                   THEN Append(acc.chunks, Strip(acc.current_chunk))
                   ELSE acc.chunks,
        current_chunk |-> unit]

RECURSIVE PackLoop(_, _, _, _)
PackLoop(acc, units, joiner, size) ==
  IF units = <<>> THEN acc
  ELSE PackLoop(PackStep(acc, Head(units), joiner, size), Tail(units), joiner, size)

\* PackUnits without the "if current_chunk" guard on the last chunk
PackUnitsAlways(units, joiner, size) ==
  LET acc == PackLoop([chunks |-> <<>>, current_chunk |-> <<>>], units, joiner, size)
  IN Append(acc.chunks, Strip(acc.current_chunk))

PackUnits(units, joiner, size) ==
  LET acc == PackLoop([chunks |-> <<>>, current_chunk |-> <<>>], units, joiner, size)
  IN IF acc.current_chunk # <<>>
     THEN Append(acc.chunks, Strip(acc.current_chunk))
     ELSE acc.chunks

\* _sentence_chunk(text) up to its call of _apply_overlap
SentenceChunks(text, size) == PackUnits(ReSplit(text), <<" ">>, size)

\* _paragraph_chunk(text) up to its call of _apply_overlap
ParagraphChunks(text, size) == PackUnits(StrSplit(text, <<"\n", "\n">>), <<"\n", "\n">>, size)

\* OverlapText that joins the words whatever their number
OverlapTextJoined(prev_chunk, overlap) ==
  LET tail == IF Len(prev_chunk) > overlap
              THEN Slice(prev_chunk, Len(prev_chunk) - overlap + 1, Len(prev_chunk))
              ELSE prev_chunk
  IN Join(Words(tail), <<" ">>)

\* OverlapText taking one character more than chunk_overlap
OverlapTextWide(prev_chunk, overlap) ==
  LET tail == IF Len(prev_chunk) > overlap + 1
              THEN Slice(prev_chunk, Len(prev_chunk) - overlap, Len(prev_chunk))
              ELSE prev_chunk
      words == Words(tail)
  IN IF Len(words) > 1 THEN Join(words, <<" ">>) ELSE tail

\* the overlap text taken from prev_chunk in _apply_overlap
OverlapText(prev_chunk, overlap) ==
  LET tail == IF Len(prev_chunk) > overlap
              THEN Slice(prev_chunk, Len(prev_chunk) - overlap + 1, Len(prev_chunk))
              ELSE prev_chunk
      words == Words(tail)
  IN IF Len(words) > 1 THEN Join(words, <<" ">>) ELSE tail

\* _apply_overlap(chunks)
ApplyOverlap(chunks, overlap) ==
  IF Len(chunks) <= 1 \/ overlap <= 0 THEN chunks
  ELSE [i \in 1..Len(chunks) |->
          IF i = 1 THEN chunks[1]
          ELSE OverlapText(chunks[i - 1], overlap) \o <<" ">> \o chunks[i]]

\* the strategy dispatch of chunk_document
Recognized == {"recursive", "sentence", "paragraph"}
\* Dispatch with the recursive strategy as the fallback
DispatchDefault(s) == IF s \in Recognized THEN s ELSE "recursive"

Dispatch(s) == IF s \in Recognized THEN s ELSE "raise"

\* StampAll counting chunk_id from one
StampAllOneBased(chunks, metadata) ==
  [i \in 1..Len(chunks) |->
     [content |-> chunks[i],
      metadata |-> [filename |-> metadata.filename,
                    chunk_id |-> i,
                    chunk_size |-> Len(chunks[i]),
                    total_chunks |-> Len(chunks)]]]

\* StampAll with len(chunks) in place of len(chunk)
StampAllListLen(chunks, metadata) ==
  [i \in 1..Len(chunks) |->
     [content |-> chunks[i],
      metadata |-> [filename |-> metadata.filename,
                    chunk_id |-> i - 1,
                    chunk_size |-> Len(chunks),
                    total_chunks |-> Len(chunks)]]]

\* the metadata added to each chunk by chunk_document
StampAll(chunks, metadata) ==
  [i \in 1..Len(chunks) |->
     [content |-> chunks[i],
      metadata |-> [filename |-> metadata.filename,
                    chunk_id |-> i - 1,
                    chunk_size |-> Len(chunks[i]),
                    total_chunks |-> Len(chunks)]]]

\* ---------------------------------------------------------------- state
VARIABLES
  document,       \* the argument of chunk_document: [content, metadata]
  strategy,       \* the strategy argument
  chunk_size,     \* self.chunk_size
  chunk_overlap,  \* self.chunk_overlap
  pc,             \* position of the call
  sepIdx,         \* index in separators of the next separator of the cascade
  chunks,         \* the local list chunks
  pre,            \* the list handed to _apply_overlap
  chunk_docs,     \* the returned list
  error,          \* the raised exception, if any
  applied         \* history: separators the cascade has processed, in order

vars == <<document, strategy, chunk_size, chunk_overlap, pc, sepIdx, chunks,
          pre, chunk_docs, error, applied>>

Strategies == Recognized \cup {"bogus"}
NoError == [type |-> "none", message |-> <<>>]

Init ==
  /\ document \in [content : Strings(Alphabet, MaxLen), metadata : {[filename |-> "f.txt"]}]
  /\ strategy \in Strategies
  /\ chunk_size \in 1..MaxChunk
  /\ chunk_overlap \in 0..(chunk_size - 1)
  /\ pc = "start"
  /\ sepIdx = 1
  /\ chunks = <<>>
  /\ pre = <<>>
  /\ chunk_docs = <<>>
  /\ error = NoError
  /\ applied = <<>>

\* chunk_document, unknown strategy: raise ValueError
RaiseUnknownStrategy ==
  /\ pc = "start"
  /\ Dispatch(strategy) = "raise"
  /\ pc' = "raised"
  /\ error' = [type |-> "ValueError",
               message |-> <<"Unknown chunking strategy: ", strategy>>]
  /\ UNCHANGED <<document, strategy, chunk_size, chunk_overlap, sepIdx, chunks,
                 pre, chunk_docs, applied>>

\* _recursive_chunk entered: chunks = [text]
EnterRecursive ==
  /\ pc = "start"
  /\ Dispatch(strategy) = "recursive"
  /\ chunks' = <<document.content>>
  /\ sepIdx' = 1
  /\ pc' = "cascade"
  /\ UNCHANGED <<document, strategy, chunk_size, chunk_overlap, pre, chunk_docs,
                 error, applied>>

\* one iteration of "for separator in separators"
CascadeRound ==
  /\ pc = "cascade"
  /\ LET new_chunks == RoundChunks(chunks, separators[sepIdx], chunk_size) IN
     /\ chunks' = new_chunks
     /\ applied' = Append(applied, separators[sepIdx])
     /\ IF AllFit(new_chunks, chunk_size) \/ sepIdx = Len(separators)
        THEN pc' = "strip" /\ sepIdx' = sepIdx
        ELSE pc' = "cascade" /\ sepIdx' = sepIdx + 1
  /\ UNCHANGED <<document, strategy, chunk_size, chunk_overlap, pre, chunk_docs, error>>

\* _recursive_chunk, "Remove empty chunks"
StripChunks ==
  /\ pc = "strip"
  /\ chunks' = StripNonEmpty(chunks)
  /\ pc' = "overlap"
  /\ UNCHANGED <<document, strategy, chunk_size, chunk_overlap, sepIdx, pre,
                 chunk_docs, error, applied>>

SentenceChunk ==
  /\ pc = "start"
  /\ Dispatch(strategy) = "sentence"
  /\ chunks' = SentenceChunks(document.content, chunk_size)
  /\ pc' = "overlap"
  /\ UNCHANGED <<document, strategy, chunk_size, chunk_overlap, sepIdx, pre,
                 chunk_docs, error, applied>>

ParagraphChunk ==
  /\ pc = "start"
  /\ Dispatch(strategy) = "paragraph"
  /\ chunks' = ParagraphChunks(document.content, chunk_size)
  /\ pc' = "overlap"
  /\ UNCHANGED <<document, strategy, chunk_size, chunk_overlap, sepIdx, pre,
                 chunk_docs, error, applied>>

\* the call of _apply_overlap that ends each strategy
ApplyOverlapStep ==
  /\ pc = "overlap"
  /\ pre' = chunks
  /\ chunks' = ApplyOverlap(chunks, chunk_overlap)
  /\ pc' = "stamp"
  /\ UNCHANGED <<document, strategy, chunk_size, chunk_overlap, sepIdx,
                 chunk_docs, error, applied>>

\* chunk_document, "Add metadata to each chunk", and return
StampMetadata ==
  /\ pc = "stamp"
  /\ chunk_docs' = StampAll(chunks, document.metadata)
  /\ pc' = "done"
  /\ UNCHANGED <<document, strategy, chunk_size, chunk_overlap, sepIdx, chunks,
                 pre, error, applied>>

Next ==
  \/ RaiseUnknownStrategy
  \/ EnterRecursive
  \/ CascadeRound
  \/ StripChunks
  \/ SentenceChunk
  \/ ParagraphChunk
  \/ ApplyOverlapStep
  \/ StampMetadata

Spec == Init /\ [][Next]_vars

\* ---------------------------------------------------------------- overlap alone
\* _apply_overlap as a function of its argument: the call is at the position
\* where a strategy hands over its list of stripped chunks.  (Such lists are
\* what the strategies produce: "a\na\na" under Recursive with chunk_size 4
\* hands over ["a\na", "a"]; an empty chunk comes from Paragraph only, as
\* " \n\na" with chunk_size 1 hands over ["", "a"].)
Stripped(chars, n) == {t \in Strings(chars, n) : Strip(t) = t}

InitOverlap ==
  /\ document = [content |-> <<>>, metadata |-> [filename |-> "f.txt"]]
  /\ strategy \in Recognized
  /\ chunk_size = MaxPreLen + 1
  /\ chunk_overlap \in 0..MaxPreLen
  /\ pc = "overlap"
  /\ sepIdx = 1
  /\ chunks \in UNION {[1..n -> Stripped(OverlapAlphabet, MaxPreLen)] : n \in 0..MaxPreCount}
  /\ strategy = "paragraph" \/ \A i \in 1..Len(chunks) : chunks[i] # <<>>
  /\ pre = <<>>
  /\ chunk_docs = <<>>
  /\ error = NoError
  /\ applied = <<>>

NextOverlap ==
  \/ ApplyOverlapStep
  \/ StampMetadata

SpecOverlap == InitOverlap /\ [][NextOverlap]_vars

\* ---------------------------------------------------------------- properties
content == document.content
Returned == pc = "done"
Handed == pc \in {"stamp", "done"}

\* the non-whitespace characters of a text, in order
NonWs(text) == SelectSeq(text, LAMBDA c : c \notin Whitespace)

RECURSIVE Concat(_)
Concat(list) == IF list = <<>> THEN <<>> ELSE Head(list) \o Concat(Tail(list))

\* the units of the Sentence and Paragraph strategies
Units ==
  IF strategy = "sentence" THEN ReSplit(content)
  ELSE StrSplit(content, <<"\n", "\n">>)

\* C1: every pre-overlap chunk is at most chunk_size long, except a chunk of
\* the Sentence or Paragraph strategy that is one single unit (stripped) which
\* is itself longer than chunk_size; Recursive never exceeds chunk_size.
PreOverlapWithinSize ==
  Handed =>
    \A i \in 1..Len(pre) :
      Len(pre[i]) > chunk_size =>
        /\ strategy \in {"sentence", "paragraph"}
        /\ \E u \in 1..Len(Units) :
             Len(Units[u]) > chunk_size /\ pre[i] = Strip(Units[u])

PreOverlapWitness ==
  /\ Returned
  /\ strategy = "sentence"
  /\ Len(pre) >= 2
  /\ \E i \in 1..Len(pre) : Len(pre[i]) > chunk_size
  /\ \E i \in 1..Len(pre) : Len(pre[i]) = chunk_size

\* C2: total_chunks of every returned chunk is the number of returned chunks
\* and the index stored with the k-th returned chunk (0-based; the key is
\* chunk_id in the source) is k.
IndexAndTotal ==
  Returned =>
    \A k \in 1..Len(chunk_docs) :
      /\ chunk_docs[k].metadata.total_chunks = Len(chunk_docs)
      /\ chunk_docs[k].metadata.chunk_id = k - 1

IndexAndTotalWitness ==
  Returned /\ Len(chunk_docs) >= 3 /\ strategy = "recursive"

\* the final n characters of a text, all of it when it is shorter
LastChars(text, n) ==
  IF Len(text) <= n THEN text ELSE Slice(text, Len(text) - n + 1, Len(text))

\* C3 as stated: F[0] = P[0] and F[i] = T + " " + P[i] with T the final V
\* characters of P[i-1], character for character.
OverlapVerbatim ==
  (Handed /\ Len(pre) > 1 /\ chunk_overlap > 0) =>
    /\ Len(chunks) = Len(pre)
    /\ chunks[1] = pre[1]
    /\ \A i \in 2..Len(pre) :
         chunks[i] = LastChars(pre[i - 1], chunk_overlap) \o <<" ">> \o pre[i]

\* a text with no whitespace at either end whose whitespace runs are single spaces
SingleSpaced(text) ==
  /\ Strip(text) = text
  /\ \A i \in 1..Len(text) :
       text[i] \in Whitespace => (text[i] = " " /\ text[i + 1] \notin Whitespace)

\* C3, amended: F[0] = P[0] and F[i] = X + " " + P[i], where X is T (the
\* final V characters of P[i-1]) itself when T holds at most one word, and
\* otherwise the words of T in order, joined by single spaces.
OverlapNormalised ==
  (Handed /\ Len(pre) > 1 /\ chunk_overlap > 0) =>
    /\ Len(chunks) = Len(pre)
    /\ chunks[1] = pre[1]
    /\ \A i \in 2..Len(pre) :
         LET T == LastChars(pre[i - 1], chunk_overlap)
             n == Len(chunks[i]) - Len(pre[i]) - 1
             X == Slice(chunks[i], 1, n)
         IN /\ n >= 0
            /\ Slice(chunks[i], n + 1, Len(chunks[i])) = <<" ">> \o pre[i]
            /\ Words(X) = Words(T)
            /\ IF Len(Words(T)) > 1 THEN SingleSpaced(X) ELSE X = T

OverlapNormalisedWitness ==
  /\ Handed
  /\ Len(pre) > 1
  /\ chunk_overlap > 0
  /\ \E i \in 2..Len(pre) :
       LET T == LastChars(pre[i - 1], chunk_overlap)
       IN /\ Len(Words(T)) > 1
          /\ ~SingleSpaced(T)
          /\ Len(pre[i - 1]) > chunk_overlap

\* C4: the non-whitespace characters of the concatenated pre-overlap chunks
\* are those of the document content, in order.
CoverageNonWhitespace ==
  Handed => NonWs(Concat(pre)) = NonWs(content)

\* C5: an unrecognised strategy raises an error naming the strategy, no
\* splitting step has run and nothing is returned.
UnknownStrategyFails ==
  strategy \notin {"recursive", "sentence", "paragraph"} =>
    /\ pc \in {"start", "raised"}
    /\ chunks = <<>> /\ pre = <<>> /\ applied = <<>> /\ chunk_docs = <<>>
    /\ pc = "raised" =>
         /\ error.type = "ValueError"
         /\ error.message[Len(error.message)] = strategy

UnknownStrategyWitness ==
  pc = "raised" /\ strategy = "bogus" /\ content # <<>>

\* C6 as stated: a non-empty document shorter than chunk_size gives exactly
\* one chunk, the stripped content.
ShortDocument == strategy \in Recognized /\ content # <<>> /\ Len(content) < chunk_size

ShortDocumentOneChunk ==
  (Returned /\ ShortDocument) =>
    /\ Len(chunk_docs) = 1
    /\ chunk_docs[1].content = Strip(content)

\* every whitespace run of the text that follows one of . ! ? is one space
SentenceGapsSingle(text) ==
  \A i \in 2..Len(text) :
    (text[i] \in Whitespace /\ text[i - 1] \in SentenceEnd) =>
      (text[i] = " " /\ (i = Len(text) \/ text[i + 1] \notin Whitespace))

\* C6, amended: the same for a document that holds a non-whitespace character
\* and, under Sentence, whose stripped content has a single space wherever
\* whitespace follows . ! ?
ShortDocumentOneChunkAmended ==
  (/\ Returned
   /\ ShortDocument
   /\ Strip(content) # <<>>
   /\ strategy = "sentence" => SentenceGapsSingle(Strip(content))) =>
    /\ Len(chunk_docs) = 1
    /\ chunk_docs[1].content = Strip(content)

ShortDocumentWitness ==
  /\ Returned
  /\ ShortDocument
  /\ strategy = "sentence"
  /\ Len(ReSplit(Strip(content))) > 1
  /\ SentenceGapsSingle(Strip(content))
  /\ Len(chunk_docs) = 1

\* C7: an empty document gives zero chunks and no error, for each strategy.
EmptyDocumentNoChunks ==
  (content = <<>> /\ strategy \in Recognized) =>
    /\ pc # "raised"
    /\ error = NoError
    /\ chunk_docs = <<>>
    /\ Handed => chunks = <<>>

EmptyDocumentWitness ==
  Returned /\ content = <<>> /\ strategy = "recursive" /\ chunk_docs = <<>>

\* C8 as stated: under Recursive with 0 < overlap < chunk_size every final
\* chunk is at most chunk_size + chunk_overlap long.
FinalWithinSizePlusOverlap ==
  (Returned /\ strategy = "recursive" /\ chunk_overlap > 0) =>
    \A i \in 1..Len(chunk_docs) :
      Len(chunk_docs[i].content) <= chunk_size + chunk_overlap

\* C8, amended: at most chunk_size + chunk_overlap + 1, the separating space
\* included.
FinalWithinSizePlusOverlapPlusOne ==
  (Returned /\ strategy = "recursive" /\ chunk_overlap > 0) =>
    \A i \in 1..Len(chunk_docs) :
      Len(chunk_docs[i].content) <= chunk_size + chunk_overlap + 1

FinalSizeWitness ==
  /\ Returned
  /\ strategy = "recursive"
  /\ chunk_overlap > 0
  /\ \E i \in 1..Len(chunk_docs) :
       Len(chunk_docs[i].content) = chunk_size + chunk_overlap + 1

\* C9: chunk_size of every returned chunk is the length of its final content;
\* for a chunk after the first with overlap applied that is the pre-overlap
\* length plus the length of the prepended overlap text plus one.
ChunkSizeIsFinalLength ==
  Returned =>
    /\ Len(chunk_docs) = Len(pre)
    /\ \A k \in 1..Len(chunk_docs) :
         /\ chunk_docs[k].metadata.chunk_size = Len(chunk_docs[k].content)
         /\ (k > 1 /\ chunk_overlap > 0) =>
              chunk_docs[k].metadata.chunk_size
                = Len(pre[k]) + Len(OverlapText(pre[k - 1], chunk_overlap)) + 1

ChunkSizeWitness ==
  /\ Returned
  /\ chunk_overlap > 0
  /\ Len(chunk_docs) >= 2
  /\ chunk_docs[2].metadata.chunk_size > Len(pre[2]) + 1
  /\ chunk_docs[2].metadata.chunk_size # chunk_docs[1].metadata.chunk_size

\* the priority order of the separators
PriorityOrder ==
  << <<"\n", "\n">>, <<"\n">>, <<".", " ">>, <<"!", " ">>, <<"?", " ">>,
     <<";", " ">>, <<",", " ">>, <<" ">>, <<>> >>

IsSubstring(piece, text) == \E s \in 1..(Len(text) + 1) : OccursAt(text, piece, s)

\* new is old with every fragment within size kept in place and every larger
\* fragment replaced, in place, by pieces of itself: cut[i] is the number of
\* fragments of new that stand for old[1..i]
CarriedInPlace(old, new, size) ==
  \E cut \in [0..Len(old) -> 0..Len(new)] :
    /\ cut[0] = 0
    /\ cut[Len(old)] = Len(new)
    /\ \A i \in 1..Len(old) :
         /\ cut[i - 1] <= cut[i]
         /\ IF Len(old[i]) <= size
            THEN cut[i] = cut[i - 1] + 1 /\ new[cut[i]] = old[i]
            ELSE \A j \in (cut[i - 1] + 1)..cut[i] : IsSubstring(new[j], old[i])

\* C10: the cascade takes the separators in the priority order; a round
\* carries every fragment already within chunk_size unchanged and in place;
\* a round that ends with every fragment within chunk_size ends the cascade
\* (no later separator is applied), any other round is followed by the next
\* separator.
CascadeRounds ==
  [][/\ pc = "cascade" =>
          /\ Len(applied) < Len(PriorityOrder)
          /\ applied' = Append(applied, PriorityOrder[Len(applied) + 1])
          /\ CarriedInPlace(chunks, chunks', chunk_size)
          /\ IF \A i \in 1..Len(chunks') : Len(chunks'[i]) <= chunk_size
             THEN pc' = "strip"
             ELSE pc' = "cascade" /\ Len(applied') < Len(PriorityOrder)
     /\ pc # "cascade" => applied' = applied
    ]_vars

CascadeWitness ==
  /\ pc = "cascade"
  /\ Len(applied) = 8
  /\ Len(chunks) >= 2
  /\ Len(chunks[1]) > chunk_size
  /\ Len(chunks[2]) <= chunk_size

\* C11: no returned chunk has empty content, whatever the recognized strategy
\* and the document (whitespace-only content included).
NoEmptyChunk ==
  (Returned /\ strategy \in Recognized) =>
    \A k \in 1..Len(chunk_docs) : Len(chunk_docs[k].content) >= 1

====
